---------------------------- MODULE Spec2Model ----------------------------
(***************************************************************************)
(* Model of cvatjs/src/api-implementation.js: the filter validator          *)
(* (checkFilter), the three filtered getters (cvat.users.get,               *)
(* cvat.jobs.get, cvat.tasks.get) and the context wrapper (setupEnv).       *)
(*                                                                          *)
(* A getter is an async function.  Its code up to the first `await` runs    *)
(* in one step (the *Call actions); each resumption after a server-proxy    *)
(* promise settles is one further step (the *Settled actions).  The         *)
(* getters keep no state outside their own activation, so one activation    *)
(* is modelled at a time.  Calls made through setupEnv share the `hidden`   *)
(* object, so several of those are modelled in flight together.             *)
(***************************************************************************)
EXTENDS Integers, Sequences, FiniteSets

\* Largest number of own keys of a filter object.
MaxKeys == 3
\* Number of wrapper activations that may be in flight together.
MaxCalls == 2

---------------------------------------------------------------------------
(* JavaScript values.  A value is a record: `type` is its kind, `s` its    *)
(* text when it is a string, `n` its number when it is an integer (or 1    *)
(* for true, 0 for false).  "integer" and "fraction" are both numbers.     *)

Int_(k) == [type |-> "integer", s |-> "", n |-> k]
Str_(t) == [type |-> "string", s |-> t, n |-> 0]
Bool_(b) == [type |-> "boolean", s |-> "", n |-> IF b THEN 1 ELSE 0]
Fraction == [type |-> "fraction", s |-> "", n |-> 0]
Undefined == [type |-> "undefined", s |-> "", n |-> 0]

typeof(value) ==
    IF value.type \in {"integer", "fraction"} THEN "number" ELSE value.type

\* ToBoolean, as applied by `&&`, `!` and `? :`.
Truthy(value) ==
    CASE value.type = "undefined" -> FALSE
      [] value.type = "boolean" -> value.n = 1
      [] value.type = "integer" -> value.n # 0
      [] value.type = "string" -> value.s # ""
      [] OTHER -> TRUE

Digit(d) ==
    CASE d = 0 -> "0" [] d = 1 -> "1" [] d = 2 -> "2" [] d = 3 -> "3"
      [] d = 4 -> "4" [] d = 5 -> "5" [] d = 6 -> "6" [] d = 7 -> "7"
      [] d = 8 -> "8" [] OTHER -> "9"

RECURSIVE NatToString(_)
NatToString(k) ==
    IF k < 10 THEN Digit(k) ELSE NatToString(k \div 10) \o Digit(k % 10)

\* ToString, as applied by URLSearchParams.set to its value argument.
ToString(value) ==
    CASE value.type = "string" -> value.s
      [] value.type = "integer" ->
            IF value.n < 0 THEN "-" \o NatToString(-value.n)
            ELSE NatToString(value.n)
      [] value.type = "boolean" -> IF value.n = 1 THEN "true" ELSE "false"
      [] value.type = "fraction" -> "1.5"
      [] OTHER -> "undefined"

---------------------------------------------------------------------------
(* Objects.  A filter is the sequence of its own enumerable properties,    *)
(* <<key, value>>, in the order `for ... in` visits them.                  *)

\* Properties every plain object inherits from Object.prototype (those the
\* model's filters can name).
ObjectPrototypeKeys ==
    {"constructor", "toString", "hasOwnProperty", "__defineGetter__"}

OwnKeys(obj) == { obj[i][1] : i \in 1..Len(obj) }

\* Object.prototype.hasOwnProperty.call(obj, prop)
hasOwnProperty(obj, prop) == prop \in OwnKeys(obj)

\* prop in obj, for an object made by an object literal: own or inherited.
In(prop, obj) == prop \in OwnKeys(obj) \/ prop \in ObjectPrototypeKeys

\* obj[prop] for a filter: the own value, else undefined (the getters read
\* only names Object.prototype does not define).
Get(obj, prop) ==
    IF hasOwnProperty(obj, prop)
    THEN obj[CHOOSE i \in 1..Len(obj) : obj[i][1] = prop][2]
    ELSE Undefined

\* Object.keys(obj).length
KeysLength(obj) == Len(obj)

---------------------------------------------------------------------------
(* The checkers.                                                           *)

TaskStatus == {"annotation", "validation", "completed"}
TaskMode == {"annotation", "interpolation"}

isBoolean(value) == typeof(value) = "boolean"

isInteger(value) == typeof(value) = "number" /\ value.type = "integer"

isEnum(this, value) == value.type = "string" /\ value.s \in this

isString(value) == typeof(value) = "string"

\* The checker tables of the three getters: key |-> checker.
UsersFields == [k \in {"self"} |-> "isBoolean"]

JobsFields == [k \in {"taskID", "jobID"} |-> "isInteger"]

TasksFields ==
    [k \in {"name", "id", "owner", "assignee", "search", "status", "mode"} |->
        CASE k = "id" -> "isInteger"
          [] k = "status" -> "isEnumTaskStatus"
          [] k = "mode" -> "isEnumTaskMode"
          [] OTHER -> "isString"]

\* fields[prop](value) where prop is an own key of the table: "true" or
\* "false", the checker's answer.
CallChecker(checker, value) ==
    LET r == CASE checker = "isBoolean" -> isBoolean(value)
               [] checker = "isInteger" -> isInteger(value)
               [] checker = "isString" -> isString(value)
               [] checker = "isEnumTaskStatus" -> isEnum(TaskStatus, value)
               [] OTHER -> isEnum(TaskMode, value)
    IN IF r THEN "true" ELSE "false"

\* fields[prop](value) where prop is inherited from Object.prototype, with
\* the table as receiver: "true"/"false" for a truthy/falsy result, "throw"
\* for a TypeError.
\*   constructor(value)       Object(value): an object, truthy
\*   toString(value)          "[object Object]", truthy
\*   hasOwnProperty(value)    whether ToPropertyKey(value) is an own key
\*   __defineGetter__(value)  one argument, so the getter is not callable
CallInherited(fields, prop, value) ==
    CASE prop = "hasOwnProperty" ->
            IF ToString(value) \in DOMAIN fields THEN "true" ELSE "false"
      [] prop = "__defineGetter__" -> "throw"
      [] OTHER -> "true"

\* prop in fields (line 43): the table is an object literal.
InFields(prop, fields) == prop \in DOMAIN fields \/ prop \in ObjectPrototypeKeys

RECURSIVE checkFilterFrom(_, _, _)
checkFilterFrom(filter, fields, i) ==
    IF i > Len(filter) THEN "ok"
    ELSE LET prop == filter[i][1]
             value == filter[i][2]
         IN IF ~InFields(prop, fields) THEN "ArgumentError"
            ELSE LET r == IF prop \in DOMAIN fields
                          THEN CallChecker(fields[prop], value)
                          ELSE CallInherited(fields, prop, value)
                 IN CASE r = "throw" -> "TypeError"
                      [] r = "false" -> "ArgumentError"
                      [] OTHER -> checkFilterFrom(filter, fields, i + 1)

\* checkFilter(filter, fields): "ok" when it returns, else the kind of the
\* exception it throws.
checkFilter(filter, fields) == checkFilterFrom(filter, fields, 1)

---------------------------------------------------------------------------
(* The server proxy (./server-proxy) and the data it serves.               *)

\* The tasks on the server, each with the ids of its jobs.
ServerTasks ==
    << [id |-> 1, jobs |-> <<0, 1>>], [id |-> 2, jobs |-> <<2>>] >>

\* The users on the server; the first is the one logged in.
ServerUsers == <<1, 2>>

TaskIds == { ServerTasks[i].id : i \in 1..Len(ServerTasks) }

JobsOfTask(id) ==
    LET i == CHOOSE k \in 1..Len(ServerTasks) : ServerTasks[k].id = id
    IN ServerTasks[i].jobs

SeqRange(q) == { q[i] : i \in 1..Len(q) }

\* A request to the proxy: the operation, its argument (getJob) and the
\* entries of its query (getTasks).
Request(op, arg, query) == [op |-> op, arg |-> arg, query |-> query]

QueryNames(query) == { query[i][1] : i \in 1..Len(query) }

QueryValue(query, name) ==
    query[CHOOSE i \in 1..Len(query) : query[i][1] = name][2]

\* serverProxy.jobs.getJob(jobID): the job and its task, when there is one.
GetJobResponses(arg) ==
    IF arg.type # "integer" THEN {}
    ELSE { [id |-> arg.n, task_id |-> t] :
             t \in { u \in TaskIds : arg.n \in SeqRange(JobsOfTask(u)) } }

\* serverProxy.tasks.getTasks(query): the task with the id asked for, or,
\* for the other fields, whichever tasks the server finds to match.
GetTasksResponses(query) ==
    IF "id" \in QueryNames(query)
    THEN { SelectSeq(ServerTasks,
                     LAMBDA t : NatToString(t.id) = QueryValue(query, "id")) }
    ELSE { SelectSeq(ServerTasks, LAMBDA t : t.id \in S) : S \in SUBSET TaskIds }

---------------------------------------------------------------------------
(* State.                                                                  *)

VARIABLES
    api,         \* the getter being run: "none", "users", "jobs", "tasks"
    filter,      \* its argument
    pc,          \* where its activation stands
    validation,  \* what checkFilter did with the argument
    outcome,     \* "pending", "ok", or the kind of error it rejected with
    result,      \* the ids of the objects it resolved with
    proxyLog,    \* the requests it made to the server proxy, in order
    job,         \* the job getJob answered with (cvat.jobs.get)
    hidden,      \* the ./hidden object: [taskID, jobID], Undefined = absent
    calls        \* the activations of the setupEnv wrapper

apiVars == <<api, filter, pc, validation, outcome, result, proxyLog, job>>
envVars == <<hidden, calls>>
vars == <<api, filter, pc, validation, outcome, result, proxyLog, job,
          hidden, calls>>

NoJob == [id |-> -1, task_id |-> -1]

CallIds == 1..MaxCalls

IdleCall ==
    [pc |-> "idle", this |-> [kind |-> "none", id |-> 0, taskId |-> 0],
     invoked |-> FALSE, wrote |-> FALSE, settled |-> "none",
     outcome |-> "none"]

Init ==
    /\ api = "none"
    /\ filter = <<>>
    /\ pc = "idle"
    /\ validation = "none"
    /\ outcome = "none"
    /\ result = <<>>
    /\ proxyLog = <<>>
    /\ job = NoJob
    /\ hidden = [taskID |-> Undefined, jobID |-> Undefined]
    /\ calls = [c \in CallIds |-> IdleCall]

---------------------------------------------------------------------------
(* The arguments the getters are called with: for each key, values its     *)
(* checker accepts and values it refuses.                                  *)

\* Keys no table registers: four that Object.prototype defines, one that
\* nothing defines.
ForeignKeys == ObjectPrototypeKeys \cup {"bogus"}

ForeignProps ==
    { <<k, Int_(1)>> : k \in ForeignKeys } \cup { <<"hasOwnProperty", Str_("id")>> }

UsersProps ==
    { <<"self", v>> : v \in {Bool_(TRUE), Bool_(FALSE), Int_(1)} }
        \cup ForeignProps

JobsProps ==
    { <<"taskID", v>> : v \in {Int_(0), Int_(1), Int_(2), Str_("a")} }
        \cup { <<"jobID", v>> : v \in {Int_(0), Int_(1), Int_(2), Fraction} }
        \cup ForeignProps

TasksProps ==
    { <<"id", v>> : v \in {Int_(1), Int_(2), Str_("a")} }
        \cup { <<"search", v>> : v \in {Str_("a"), Int_(1)} }
        \cup { <<"status", v>> : v \in {Str_("annotation"), Str_("a")} }
        \cup ForeignProps

RECURSIVE FiltersOfLen(_, _)
FiltersOfLen(props, n) ==
    IF n = 0 THEN { <<>> }
    ELSE UNION { { Append(f, p) : p \in { q \in props : q[1] \notin OwnKeys(f) } } :
                   f \in FiltersOfLen(props, n - 1) }

\* The plain objects with at most MaxKeys own properties drawn from props.
Filters(props) == UNION { FiltersOfLen(props, n) : n \in 0..MaxKeys }

---------------------------------------------------------------------------
(* The getters, up to their first await.  Each operator gives what the     *)
(* code has done when it first yields or throws: checkFilter's verdict,    *)
(* the outcome (the kind of the error thrown, or "pending") and the        *)
(* requests made to the proxy.                                             *)

Sync(v, o, reqs) == [validation |-> v, outcome |-> o, requests |-> reqs]

\* cvat.users.get with the request made before the filter is checked.
UsersGetSyncRequestFirst(f) ==
    LET v == checkFilter(f, UsersFields)
        req == IF In("self", f) /\ Truthy(Get(f, "self"))
               THEN Request("getSelf", Undefined, <<>>)
               ELSE Request("getUsers", Undefined, <<>>)
    IN Sync(v, IF v # "ok" THEN v ELSE "pending", << req >>)

\* cvat.users.get, lines 96-106.
UsersGetSync(f) ==
    LET v == checkFilter(f, UsersFields)
    IN IF v # "ok" THEN Sync(v, v, <<>>)
       ELSE IF In("self", f) /\ Truthy(Get(f, "self"))
       THEN Sync(v, "pending", << Request("getSelf", Undefined, <<>>) >>)
       ELSE Sync(v, "pending", << Request("getUsers", Undefined, <<>>) >>)

\* The names cvat.tasks.get copies into the query, in its order.
QueryFields == <<"name", "owner", "assignee", "search", "status", "mode", "id">>

\* Lines 165-170: the entries of searchParams after the loop.
RECURSIVE searchParamsFrom(_, _)
searchParamsFrom(f, i) ==
    IF i > Len(QueryFields) THEN <<>>
    ELSE LET field == QueryFields[i]
         IN IF hasOwnProperty(f, field)
            THEN << <<field, ToString(Get(f, field))>> >>
                     \o searchParamsFrom(f, i + 1)
            ELSE searchParamsFrom(f, i + 1)

searchParams(f) == searchParamsFrom(f, 1)

\* Lines 153-163: the cross-field rules of cvat.tasks.get.
TasksCrossField(f) ==
    IF In("search", f) /\ KeysLength(f) > 1 THEN "ArgumentError"
    ELSE IF In("id", f) /\ KeysLength(f) > 1 THEN "ArgumentError"
    ELSE "ok"

\* cvat.tasks.get, lines 143-172.
TasksGetSync(f) ==
    LET v == checkFilter(f, TasksFields)
    IN IF v # "ok" THEN Sync(v, v, <<>>)
       ELSE IF TasksCrossField(f) # "ok" THEN Sync(v, TasksCrossField(f), <<>>)
       ELSE Sync(v, "pending",
                 << Request("getTasks", Undefined, searchParams(f)) >>)

\* The rules of cvat.jobs.get without the test for an empty filter.
JobsCrossFieldNoEmptyRule(f) ==
    IF In("taskID", f) /\ In("jobID", f) THEN "ArgumentError" ELSE "ok"

\* Lines 118-128: the cross-field rules of cvat.jobs.get.
JobsCrossField(f) ==
    IF In("taskID", f) /\ In("jobID", f) THEN "ArgumentError"
    ELSE IF KeysLength(f) = 0 THEN "ArgumentError"
    ELSE "ok"

\* cvat.jobs.get, lines 113-134.  The call of cvat.tasks.get runs to its
\* own first await inside this step.
JobsGetSync(f) ==
    LET v == checkFilter(f, JobsFields)
    IN IF v # "ok" THEN Sync(v, v, <<>>)
       ELSE IF JobsCrossField(f) # "ok" THEN Sync(v, JobsCrossField(f), <<>>)
       ELSE IF In("taskID", f)
       THEN LET t == TasksGetSync(<< <<"id", Get(f, "taskID")>> >>)
            IN Sync(v, t.outcome, t.requests)
       ELSE Sync(v, "pending",
                 << Request("getJob", Get(f, "jobID"), <<>>) >>)

\* Line 139: what cvat.jobs.get returns, given the jobs of the task.
JobsResult(f, jobs) ==
    IF Truthy(Get(f, "jobID"))
    THEN SelectSeq(jobs, LAMBDA j : Int_(j) = Get(f, "jobID"))
    ELSE jobs

---------------------------------------------------------------------------
(* Actions of the getters.                                                 *)

\* A call of cvat.users.get(filter).
UsersGetCall ==
    /\ pc = "idle"
    /\ \E f \in Filters(UsersProps) :
          LET sync == UsersGetSync(f)
          IN /\ api' = "users"
             /\ filter' = f
             /\ validation' = sync.validation
             /\ outcome' = sync.outcome
             /\ proxyLog' = sync.requests
             /\ pc' = IF sync.outcome = "pending" THEN "awaitUsers" ELSE "done"
    /\ UNCHANGED <<result, job, envVars>>

\* A call of cvat.tasks.get(filter).
TasksGetCall ==
    /\ pc = "idle"
    /\ \E f \in Filters(TasksProps) :
          LET sync == TasksGetSync(f)
          IN /\ api' = "tasks"
             /\ filter' = f
             /\ validation' = sync.validation
             /\ outcome' = sync.outcome
             /\ proxyLog' = sync.requests
             /\ pc' = IF sync.outcome = "pending" THEN "awaitTasks" ELSE "done"
    /\ UNCHANGED <<result, job, envVars>>

\* A call of cvat.jobs.get(filter).
JobsGetCall ==
    /\ pc = "idle"
    /\ \E f \in Filters(JobsProps) :
          LET sync == JobsGetSync(f)
          IN /\ api' = "jobs"
             /\ filter' = f
             /\ validation' = sync.validation
             /\ outcome' = sync.outcome
             /\ proxyLog' = sync.requests
             /\ pc' = IF sync.outcome # "pending" THEN "done"
                      ELSE IF sync.requests[1].op = "getJob" THEN "awaitJob"
                      ELSE "awaitTasks"
    /\ UNCHANGED <<result, job, envVars>>

\* The proxy's promise rejects (network or server error): the getter
\* rejects with the same error.
ProxyRejects ==
    /\ pc \in {"awaitUsers", "awaitTasks", "awaitJob"}
    /\ pc' = "done"
    /\ outcome' = "ServerError"
    /\ UNCHANGED <<api, filter, validation, result, proxyLog, job, envVars>>

\* cvat.users.get, lines 102-109.
UsersGetSettled ==
    /\ pc = "awaitUsers"
    /\ result' = IF proxyLog[1].op = "getSelf"
                 THEN << ServerUsers[1] >> ELSE ServerUsers
    /\ outcome' = "ok"
    /\ pc' = "done"
    /\ UNCHANGED <<api, filter, validation, proxyLog, job, envVars>>

\* cvat.tasks.get, lines 172-175.
TasksGetSettled ==
    /\ pc = "awaitTasks"
    /\ api = "tasks"
    /\ \E tasks \in GetTasksResponses(proxyLog[Len(proxyLog)].query) :
          result' = [i \in 1..Len(tasks) |-> tasks[i].id]
    /\ outcome' = "ok"
    /\ pc' = "done"
    /\ UNCHANGED <<api, filter, validation, proxyLog, job, envVars>>

\* cvat.jobs.get, lines 134-135: getJob answered, the task is asked for.
JobsGetJobSettled ==
    /\ pc = "awaitJob"
    /\ \E j \in GetJobResponses(proxyLog[1].arg) :
          LET t == TasksGetSync(<< <<"id", Int_(j.task_id)>> >>)
          IN /\ job' = j
             /\ proxyLog' = proxyLog \o t.requests
             /\ outcome' = t.outcome
             /\ pc' = IF t.outcome = "pending" THEN "awaitTasks" ELSE "done"
    /\ UNCHANGED <<api, filter, validation, result, envVars>>

\* cvat.jobs.get, lines 138-139: the task list arrived.  An empty list
\* leaves task[0] undefined and the Task constructor throws.
JobsGetTasksSettled ==
    /\ pc = "awaitTasks"
    /\ api = "jobs"
    /\ \E tasks \in GetTasksResponses(proxyLog[Len(proxyLog)].query) :
          IF Len(tasks) = 0
          THEN /\ outcome' = "TypeError"
               /\ UNCHANGED result
          ELSE /\ outcome' = "ok"
               /\ result' = JobsResult(filter, tasks[1].jobs)
    /\ pc' = "done"
    /\ UNCHANGED <<api, filter, validation, proxyLog, job, envVars>>

Next ==
    \/ UsersGetCall
    \/ TasksGetCall
    \/ JobsGetCall
    \/ ProxyRejects
    \/ UsersGetSettled
    \/ TasksGetSettled
    \/ JobsGetJobSettled
    \/ JobsGetTasksSettled

Spec == Init /\ [][Next]_vars

---------------------------------------------------------------------------
(* setupEnv.  A wrapper activation runs from its call to the await of the  *)
(* wrapped function's promise in one step, and from the resumption through *)
(* the finally block in another.                                           *)

\* The receivers a wrapper may be called on: the Task and Job objects of
\* the server's tasks, and an object that is neither.
Receivers ==
    { [kind |-> "Task", id |-> t, taskId |-> t] : t \in TaskIds }
        \cup UNION { { [kind |-> "Job", id |-> j, taskId |-> t] :
                         j \in SeqRange(JobsOfTask(t)) } : t \in TaskIds }
        \cup { [kind |-> "Other", id |-> 0, taskId |-> 0] }

\* The receiver test with its last branch lost: whatever is not a Task is
\* taken for a Job.
EnterWithoutElse(h, this) ==
    IF this.kind = "Task"
    THEN [hidden |-> [h EXCEPT !.taskID = Int_(this.id)], threw |-> FALSE]
    ELSE [hidden |-> [h EXCEPT !.jobID = Int_(this.id),
                               !.taskID = Int_(this.taskId)],
          threw |-> FALSE]

\* Lines 60-67: the hidden object after the receiver test, and whether the
\* test threw.
Enter(h, this) ==
    IF this.kind = "Task"
    THEN [hidden |-> [h EXCEPT !.taskID = Int_(this.id)], threw |-> FALSE]
    ELSE IF this.kind = "Job"
    THEN [hidden |-> [h EXCEPT !.jobID = Int_(this.id),
                               !.taskID = Int_(this.taskId)],
          threw |-> FALSE]
    ELSE [hidden |-> h, threw |-> TRUE]

\* A finally block that forgets hidden.jobID.
FinallyKeepsJobID(h) == [h EXCEPT !.taskID = Undefined]

\* Lines 70-73: the finally block.
Finally(h) == [h EXCEPT !.taskID = Undefined, !.jobID = Undefined]

\* What the wrapped function has done when its call returns: an async
\* function that has yet to finish ("pending"), or one that ran to its end
\* without awaiting and returned a promise already settled.
WrappedReturns == {"pending", "fulfilled", "rejected"}

\* wrapper(...args), lines 59-68, up to the await.  With a receiver that is
\* neither Task nor Job the throw, the finally block and the rejection all
\* happen in this step.
WrapperCall(c) ==
    /\ calls[c].pc \in {"idle", "done"}
    /\ \E this \in Receivers, w \in WrappedReturns :
          LET e == Enter(hidden, this)
          IN IF e.threw
             THEN /\ hidden' = Finally(e.hidden)
                  /\ calls' = [calls EXCEPT ![c] =
                        [pc |-> "done", this |-> this, invoked |-> FALSE,
                         wrote |-> e.hidden # hidden, settled |-> "none",
                         outcome |-> "ScriptingError"]]
             ELSE /\ hidden' = e.hidden
                  /\ calls' = [calls EXCEPT ![c] =
                        [pc |-> "awaiting", this |-> this, invoked |-> TRUE,
                         wrote |-> TRUE,
                         settled |-> IF w = "pending" THEN "none" ELSE w,
                         outcome |-> "none"]]
    /\ UNCHANGED apiVars

\* The wrapped function finishes: its promise is fulfilled or rejected.
WrappedSettles(c) ==
    /\ calls[c].pc = "awaiting"
    /\ calls[c].settled = "none"
    /\ \E w \in {"fulfilled", "rejected"} :
          calls' = [calls EXCEPT ![c].settled = w]
    /\ UNCHANGED <<hidden, apiVars>>

\* Lines 68-73: the await resumes, the finally block runs, the wrapper's
\* promise settles as the wrapped function's did.
WrapperResume(c) ==
    /\ calls[c].pc = "awaiting"
    /\ calls[c].settled # "none"
    /\ hidden' = Finally(hidden)
    /\ calls' = [calls EXCEPT ![c].pc = "done",
                              ![c].outcome = calls[c].settled]
    /\ UNCHANGED apiVars

NextEnv ==
    \/ \E c \in CallIds : WrapperCall(c)
    \/ \E c \in CallIds : WrappedSettles(c)
    \/ \E c \in CallIds : WrapperResume(c)

SpecEnv == Init /\ [][NextEnv]_vars

---------------------------------------------------------------------------
(* Properties of the getters (checked under Spec).                         *)

Called == pc # "idle"

\* The checker table the running getter passes to checkFilter.
FieldsOfCall ==
    CASE api = "users" -> UsersFields
      [] api = "jobs" -> JobsFields
      [] OTHER -> TasksFields

Registered(i) == filter[i][1] \in DOMAIN FieldsOfCall

Accepted(i) ==
    /\ Registered(i)
    /\ CallChecker(FieldsOfCall[filter[i][1]], filter[i][2]) = "true"

\* C1: whenever the filter has an own key that is absent from the checker
\* table, whatever the key's name, checkFilter raises ArgumentError.
C1_UnregisteredKeyRaises ==
    (Called /\ \E i \in 1..Len(filter) : ~Registered(i))
        => validation = "ArgumentError"

\* C2: whenever the filter has a registered key whose value its checker
\* refuses, checkFilter raises ArgumentError; and checkFilter returns
\* normally only when every own key is registered and accepted.
C2_RefusedValueRaisesAndOnlyAcceptedPass ==
    Called =>
        /\ (\E i \in 1..Len(filter) : Registered(i) /\ ~Accepted(i))
              => validation = "ArgumentError"
        /\ validation = "ok" => \A i \in 1..Len(filter) : Accepted(i)

\* C3: cvat.tasks.get rejects with ArgumentError every filter holding
\* 'search' with another key and every filter holding 'id' with another
\* key; a filter holding only a valid 'search' or only a valid 'id' is
\* not rejected.
C3_TasksRejectsSearchOrIdWithOthers ==
    (Called /\ api = "tasks") =>
        /\ (Len(filter) > 1 /\ OwnKeys(filter) \cap {"search", "id"} # {})
              => outcome = "ArgumentError"
        /\ (Len(filter) = 1 /\ filter[1][1] \in {"search", "id"} /\ Accepted(1))
              => outcome # "ArgumentError"

\* C4: cvat.jobs.get rejects with ArgumentError every filter holding both
\* 'taskID' and 'jobID' with integer values.
C4_JobsRejectsTaskIDWithJobID ==
    ( /\ Called
      /\ api = "jobs"
      /\ {"taskID", "jobID"} \subseteq OwnKeys(filter)
      /\ isInteger(Get(filter, "taskID"))
      /\ isInteger(Get(filter, "jobID")) )
        => outcome = "ArgumentError"

\* C5: cvat.jobs.get rejects a filter with no keys with ArgumentError, and
\* has made no request to the server proxy (directly or through
\* cvat.tasks.get) when it does.
C5_EmptyJobFilterRejected ==
    (Called /\ api = "jobs" /\ Len(filter) = 0)
        => (pc = "done" /\ outcome = "ArgumentError" /\ proxyLog = <<>>)

C5_Witness == api = "jobs" /\ filter = <<>> /\ pc = "done"

\* The cross-field rules, as the documentation states them.
CrossFieldBroken ==
    \/ api = "tasks" /\ "search" \in OwnKeys(filter) /\ Len(filter) > 1
    \/ api = "tasks" /\ "id" \in OwnKeys(filter) /\ Len(filter) > 1
    \/ api = "jobs" /\ {"taskID", "jobID"} \subseteq OwnKeys(filter)
    \/ api = "jobs" /\ Len(filter) = 0

\* C9: a call whose filter fails checkFilter or a cross-field rule makes
\* no request to the server proxy; with a valid filter cvat.users.get
\* makes exactly one request, getSelf when filter.self is true and
\* getUsers otherwise, and cvat.tasks.get makes exactly one getTasks
\* request whose query holds exactly the recognized fields the filter has,
\* each with its value.
C9_ValidationPrecedesDelegation ==
    Called =>
        /\ (validation # "ok" \/ CrossFieldBroken) => proxyLog = <<>>
        /\ (api = "users" /\ validation = "ok") =>
              /\ Len(proxyLog) = 1
              /\ proxyLog[1].op =
                    IF Get(filter, "self") = Bool_(TRUE)
                    THEN "getSelf" ELSE "getUsers"
        /\ (api = "tasks" /\ validation = "ok" /\ ~CrossFieldBroken) =>
              /\ Len(proxyLog) = 1
              /\ proxyLog[1].op = "getTasks"
              /\ LET query == proxyLog[1].query
                 IN /\ QueryNames(query) =
                          OwnKeys(filter) \cap SeqRange(QueryFields)
                    /\ Len(query) = Cardinality(QueryNames(query))
                    /\ \A i \in 1..Len(query) :
                          query[i][2] = ToString(Get(filter, query[i][1]))

C9_Witness ==
    /\ api = "tasks"
    /\ outcome = "ok"
    /\ OwnKeys(filter) = {"status", "constructor"}
    /\ QueryNames(proxyLog[1].query) = {"status"}

\* C10: a cvat.jobs.get that resolves, called with the key 'jobID' (any
\* integer, 0 included), has asked the proxy for that job, then for the
\* task with the job's task_id, and returns just the jobs of that task
\* whose id is filter.jobID; called with the key 'taskID' it has never
\* asked for a job and returns all the jobs of the task with that id.
C10_JobsGetByJobIDOrTaskID ==
    (api = "jobs" /\ pc = "done" /\ outcome = "ok") =>
        /\ hasOwnProperty(filter, "jobID") =>
              /\ Len(proxyLog) = 2
              /\ proxyLog[1] = Request("getJob", Get(filter, "jobID"), <<>>)
              /\ proxyLog[2] =
                    Request("getTasks", Undefined,
                            << <<"id", NatToString(job.task_id)>> >>)
              /\ result = SelectSeq(JobsOfTask(job.task_id),
                                    LAMBDA j : j = Get(filter, "jobID").n)
        /\ hasOwnProperty(filter, "taskID") =>
              /\ \A i \in 1..Len(proxyLog) : proxyLog[i].op # "getJob"
              /\ result = JobsOfTask(Get(filter, "taskID").n)

---------------------------------------------------------------------------
(* Properties of setupEnv (checked under SpecEnv).                         *)

Quiescent == \A c \in CallIds : calls[c].pc \in {"idle", "done"}

SlotEmpty == hidden.taskID = Undefined /\ hidden.jobID = Undefined

\* C6: whenever no wrapped call is in flight, hidden.taskID and
\* hidden.jobID are both absent, however the calls made so far ended.
C6_SlotClearedWhenQuiescent == Quiescent => SlotEmpty

C6_Witness ==
    /\ Quiescent
    /\ \E c \in CallIds : calls[c].outcome = "rejected"
    /\ \E c \in CallIds : calls[c].outcome \in {"fulfilled", "ScriptingError"}

\* C7: a wrapper called on a receiver that is neither a Task nor a Job
\* rejects with ScriptingError, without invoking the wrapped function and
\* without writing an id into the slot; no other call ends that way.
C7_BadContextScriptingError ==
    \A c \in CallIds :
        /\ (calls[c].pc # "idle" /\ calls[c].this.kind = "Other") =>
              /\ calls[c].pc = "done"
              /\ calls[c].outcome = "ScriptingError"
              /\ ~calls[c].invoked
              /\ ~calls[c].wrote
        /\ calls[c].outcome = "ScriptingError" => calls[c].this.kind = "Other"

C7_Witness ==
    \E c, d \in CallIds :
        /\ calls[c].outcome = "ScriptingError"
        /\ calls[d].pc = "awaiting"

\* C8: from the moment a call's wrapper has written the slot until its
\* wrapped function has settled, hidden.taskID is that call's task id and
\* hidden.jobID is that call's job id (absent for a call on a Task).
C8_SlotHoldsCallContext ==
    \A c \in CallIds :
        (calls[c].pc = "awaiting" /\ calls[c].settled = "none") =>
            /\ hidden.taskID = Int_(calls[c].this.taskId)
            /\ hidden.jobID = IF calls[c].this.kind = "Job"
                              THEN Int_(calls[c].this.id) ELSE Undefined

=============================================================================
